---- MODULE Spec2Model ----
(***************************************************************************)
(* A model of crabyknife's ICMP echo probe (src/src/ping.rs) and of the    *)
(* way its result leaves the process (src/src/main.rs).                    *)
(*                                                                         *)
(*   Spec       one run of ping(target) against a nondeterministic         *)
(*              resolver, socket layer and network                         *)
(*   FairSpec   Spec with weak fairness of the program's own steps         *)
(*   BuildSpec  build_packet applied to sampled (sequence, identifier)     *)
(*   CkSpec     checksum applied to sampled byte sequences: compute,       *)
(*              insert, alter, verify                                      *)
(***************************************************************************)
EXTENDS Integers, Sequences, FiniteSets, TLC

(***************************************************************************)
(* Program constants.                                                      *)
(***************************************************************************)
ICMP_ECHO_REQUEST == 8

ICMP_ECHO_REPLY == 0

\* for seq in 0..5, off by one
ProbeCountShort == 2 + 2

\* for seq in 0..5
ProbeCount == 5

\* [MaybeUninit::<u8>::uninit(); 1024]
BufSize == 1024

\* n >= 20 + 8
MinReplyLen == 28

\* buf[20]
TypeOffset == 20

(***************************************************************************)
(* Bounds of the model.                                                    *)
(***************************************************************************)
\* datagrams the socket's receive queue holds before the kernel drops
MaxRxq == 1

\* unrelated ICMP datagrams that reach the raw socket during one run
MaxForeign == 1

\* longest byte sequence handed to checksum in CkSpec
MaxDataLen == 5

\* bit flips applied to a byte sequence after its checksum was inserted
MaxFlips == 2

(***************************************************************************)
(* Fixed-width integer helpers.                                            *)
(***************************************************************************)
U16 == 65536

Last(q) == q[Len(q)]

Min(a, b) == IF a < b THEN a ELSE b

\* the process id kept at its full width (no `as u16`)
as_u16_wide(x) == x

\* x as u16
as_u16(x) == x % U16

\* u16::to_le_bytes
to_le_bytes(x) == << x % 256, x \div 256 >>

\* u16::to_be_bytes
to_be_bytes(x) == << x \div 256, x % 256 >>

\* u16::from_be_bytes([hi, lo])
from_be_bytes(hi, lo) == hi * 256 + lo

\* A u32 is kept as its two 16-bit halves, [hi, lo] for hi * 2^16 + lo, so
\* that the accumulator has exactly 32 bits.
u32_zero == [hi |-> 0, lo |-> 0]

\* the accumulator, had it been declared 0u16 (wrapping)
u16_add_u16(a, v) == [hi |-> 0, lo |-> (a.lo + v) % U16]

\* a + (v as u32) for a u16 v, wrapping at 2^32
u32_add_u16(a, v) ==
  [hi |-> (a.hi + ((a.lo + v) \div U16)) % U16, lo |-> (a.lo + v) % U16]

(***************************************************************************)
(* checksum (ping.rs 122-168)                                              *)
(***************************************************************************)
\* data.chunks(2): consecutive slices of two bytes, the last one of one
\* byte when the length is odd
chunks(data) ==
  [k \in 1..((Len(data) + 1) \div 2) |->
      SubSeq(data, 2 * k - 1, Min(2 * k, Len(data)))]

\* the lone byte taken as it is (chunk[0] as u16, without << 8)
chunk_val_low(chunk) ==
  IF Len(chunk) = 2
    THEN from_be_bytes(chunk[1], chunk[2])
    ELSE chunk[1]

\* the value of one chunk: a big-endian u16, or the lone byte shifted
\* into the high position ((chunk[0] as u16) << 8)
chunk_val(chunk) ==
  IF Len(chunk) = 2
    THEN from_be_bytes(chunk[1], chunk[2])
    ELSE (chunk[1] * 256) % U16

\* for chunk in chunks { sum += val as u32 }
RECURSIVE sum_chunks(_, _, _)
sum_chunks(cs, k, sum) ==
  IF k > Len(cs)
    THEN sum
    ELSE sum_chunks(cs, k + 1, u32_add_u16(sum, chunk_val(cs[k])))

\* whether sum + (v as u32) exceeds u32::MAX
u32_add_overflows(a, v) == a.hi + ((a.lo + v) \div U16) >= U16

\* one iteration of the while loop: (sum & 0xFFFF) + (sum >> 16)
fold_step(sum) ==
  [hi |-> (sum.lo + sum.hi) \div U16, lo |-> (sum.lo + sum.hi) % U16]

\* the carries thrown away instead of folded back
fold_truncate(sum) == [hi |-> 0, lo |-> sum.lo]

\* while (sum >> 16) != 0 { sum = (sum & 0xFFFF) + (sum >> 16) }
RECURSIVE fold(_)
fold(sum) ==
  IF sum.hi # 0
    THEN fold([hi |-> (sum.lo + sum.hi) \div U16, lo |-> (sum.lo + sum.hi) % U16])
    ELSE sum

\* the sum returned without the final complement
checksum_no_complement(data) == fold(sum_chunks(chunks(data), 1, u32_zero)).lo

\* !(sum as u16)
checksum(data) == (U16 - 1) - fold(sum_chunks(chunks(data), 1, u32_zero)).lo

(***************************************************************************)
(* build_packet (ping.rs 88-102)                                           *)
(***************************************************************************)
\* packet[2..4].copy_from_slice(&cs.to_be_bytes())
put_checksum(packet, cs) ==
  [packet EXCEPT ![3] = to_be_bytes(cs)[1], ![4] = to_be_bytes(cs)[2]]

\* the packet with the checksum placeholder still zero
header_zero_cs(seq_, pid_) ==
  << ICMP_ECHO_REQUEST, 0, 0, 0 >> \o to_be_bytes(pid_) \o to_be_bytes(seq_)

build_packet(seq_, pid_) ==
  put_checksum(header_zero_cs(seq_, pid_), checksum(header_zero_cs(seq_, pid_)))

(***************************************************************************)
(* State.                                                                  *)
(***************************************************************************)
VARIABLES
  pc,                 \* the program's position: a line of ping or of main
  os_pid,             \* std::process::id(), a u32
  address_iter,       \* the resolver's answer, a sequence of addresses
  target_socket_addr, \* the first resolved address
  sock,               \* the raw socket: "none", "open" or "closed" (dropped)
  read_timeout,       \* whether set_read_timeout has succeeded
  pid,                \* the identifier, os_pid as u16
  seq,                \* the loop variable
  packet,             \* the packet built in this iteration
  buf,                \* the receive buffer: the n bytes recv_from wrote
  result,             \* what ping returned: <<"none">>, <<"Ok">> or <<"Err", msg>>
  stdout,             \* the lines printed with println!
  stderr,             \* the messages printed with eprint!
  exit_code,          \* the process's exit status, -1 while it runs
  built,              \* the packets build_packet has returned, in order
  sendLog,            \* the send_to calls: packet, address, whether it succeeded
  recvLog,            \* the recv_from calls: whether each returned Ok
  type_read,          \* whether this iteration has read buf[20]
  inflight,           \* indices of sendLog whose request is still on the network
  rxq,                \* datagrams queued on the socket, not yet received
  foreign,            \* unrelated datagrams that reached the socket so far
  faults,             \* the calls other than recv_from that returned an error
  b_seq, b_id,        \* BuildSpec: the inputs of build_packet
  b_pc,               \* BuildSpec: "start", "built" or "verified"
  b_packet,           \* BuildSpec: what build_packet returned
  b_verify,           \* BuildSpec: checksum of the finished packet
  c_pc,               \* CkSpec: "start", "inserted" or "verified"
  c_data,             \* CkSpec: the byte sequence under test
  c_sent,             \* CkSpec: the sequence as it was when the checksum went in
  c_flips,            \* CkSpec: number of bit flips applied since
  c_verify            \* CkSpec: checksum recomputed over the full sequence

\* checksum's loops, one iteration at a time, over an input of s_n chunks
\* that all hold the word s_word
VARIABLES
  s_pc,      \* "sum": in the for loop, "fold": in the while loop, "done":
             \* returned, "panic": aborted on an arithmetic overflow
  s_word,    \* the big-endian word every chunk of the input holds
  s_n,       \* chunks the for loop has taken so far
  s_sum,     \* sum: u32
  s_folds,   \* iterations of the while loop so far
  s_ovf,     \* whether a `sum += val as u32` has exceeded u32::MAX
  s_ret      \* the value returned

\* prettify_xml (prettify_xml.rs 14-153)
VARIABLES
  x_pc,            \* "loop": at read_event_into, "done": returned Ok,
                   \* "err": returned Err, "panic": aborted
  x_out,           \* output, as a sequence of tokens
  x_indent,        \* indent: usize
  x_child_is_text, \* child_is_text
  x_ret,           \* the String returned
  x_open,          \* history: the elements the reader has open, outermost
                   \* first, each with the kinds of children read so far
  x_events         \* history: events read so far

pingVars ==
  << pc, os_pid, address_iter, target_socket_addr, sock, read_timeout, pid,
     seq, packet, buf, result, stdout, stderr, exit_code, built, sendLog,
     recvLog, type_read, inflight, rxq, foreign, faults >>

buildVars == << b_seq, b_id, b_pc, b_packet, b_verify >>

ckVars == << c_pc, c_data, c_sent, c_flips, c_verify >>

sumVars == << s_pc, s_word, s_n, s_sum, s_folds, s_ovf, s_ret >>

xmlVars == << x_pc, x_out, x_indent, x_child_is_text, x_ret, x_open, x_events >>

vars == << pingVars, buildVars, ckVars, sumVars, xmlVars >>

(***************************************************************************)
(* The environment of a run: process ids, addresses, datagrams.            *)
(***************************************************************************)
\* process ids, one of them wider than 16 bits
PidSamples == { 4660, 70196 }

AddrLists == { << >>, << "a2", "a1" >> }

\* A datagram as the raw socket delivers it: an IPv4 header of 20 bytes, then
\* the ICMP bytes, then zero padding up to len; len may cut it short.
ip_header_byte(i) == IF i = 0 THEN 69 ELSE 0

byte_at(d, i) ==
  IF i < 20 THEN ip_header_byte(i)
  ELSE IF i - 20 < Len(d.icmp) THEN d.icmp[i - 20 + 1]
  ELSE 0

\* the Echo Reply the target returns for a request: type 0, code 0, the
\* request's identifier and sequence number, its own checksum
echo_reply_to(p) ==
  [len |-> 28,
   icmp |-> put_checksum(<< ICMP_ECHO_REPLY, 0, 0, 0 >> \o SubSeq(p, 5, 8),
                         checksum(<< ICMP_ECHO_REPLY, 0, 0, 0 >> \o SubSeq(p, 5, 8)))]

\* ICMP traffic of the host that is not a reply to this run
ForeignDatagrams ==
  { [len |-> 28, icmp |-> << 0, 0, 246, 84, 9, 171, 0, 0 >>],   \* another process's Echo Reply
    [len |-> 28, icmp |-> << 3, 1, 252, 254, 0, 0, 0, 0 >>],    \* destination unreachable
    [len |-> 27, icmp |-> << 0, 0, 255, 255, 0, 0, 0 >>],       \* one byte short, type 0
    [len |-> 20, icmp |-> << >>],                               \* a bare IP header
    [len |-> 1500, icmp |-> << 0, 0, 255, 255, 0, 0, 0, 0 >>] } \* longer than the buffer

\* what a read of a byte recv_from did not write can yield
UninitBytes == { 0, 3, 255 }

NoBuf == [n |-> 0, dgram |-> [len |-> 0, icmp |-> << >>]]

\* buf[TypeOffset].assume_init(): the byte recv_from wrote there, or, beyond
\* the n bytes written, anything
type_byte(b) ==
  IF TypeOffset < b.n THEN { byte_at(b.dgram, TypeOffset) } ELSE UninitBytes

\* the length test without the ICMP header's 8 bytes: n >= 20 && ..
classify_ip_header_only(n, b) ==
  IF n >= 20
    THEN { [read |-> TRUE, reply |-> (t = ICMP_ECHO_REPLY)] : t \in type_byte(b) }
    ELSE { [read |-> FALSE, reply |-> FALSE] }

\* the test, had it also matched the identifier and sequence number of the
\* datagram against the probe's
classify_correlated(n, b) ==
  IF n >= MinReplyLen
    THEN { [read |-> TRUE,
            reply |-> /\ t = ICMP_ECHO_REPLY
                      /\ from_be_bytes(byte_at(b.dgram, 24), byte_at(b.dgram, 25)) = pid
                      /\ from_be_bytes(byte_at(b.dgram, 26), byte_at(b.dgram, 27)) = seq]
           : t \in type_byte(b) }
    ELSE { [read |-> FALSE, reply |-> FALSE] }

\* n >= 20 + 8 && unsafe { buf[20].assume_init() } == ICMP_ECHO_REPLY
\* (&& short-circuits: the byte is read only when the length test passed)
classify(n, b) ==
  IF n >= MinReplyLen
    THEN { [read |-> TRUE, reply |-> (t = ICMP_ECHO_REPLY)] : t \in type_byte(b) }
    ELSE { [read |-> FALSE, reply |-> FALSE] }

ReplyLine(s) == << "Reply from", s >>

MalformedLine == << "Received malform packet" >>

TimeoutLine(s) == << "Request timed out", s >>

ErrDns == "DNS lookup failed on the target host"

ErrNoRecord == "no DNS recoard is found for target host"

ErrSocket == "socket"

ErrSetTimeout == "failed to set socket timeout"

ErrSend == "failed to send packet to the target host"

SetupErrors == { ErrDns, ErrNoRecord, ErrSocket, ErrSetTimeout }

(***************************************************************************)
(* ping (ping.rs 28-86) and main (main.rs 12-15), one action per step.     *)
(* A step that fails returns through `?`: ping's locals are dropped, which *)
(* closes the socket if it was open, and the error reaches main.           *)
(***************************************************************************)
PingInit ==
  /\ pc = "resolve"
  /\ os_pid \in PidSamples
  /\ address_iter = << >>
  /\ target_socket_addr = "none"
  /\ sock = "none"
  /\ read_timeout = FALSE
  /\ pid = 0
  /\ seq = 0
  /\ packet = << >>
  /\ buf = NoBuf
  /\ result = << "none" >>
  /\ stdout = << >>
  /\ stderr = << >>
  /\ exit_code = -1
  /\ built = << >>
  /\ sendLog = << >>
  /\ recvLog = << >>
  /\ type_read = FALSE
  /\ inflight = {}
  /\ rxq = << >>
  /\ foreign = 0
  /\ faults = {}

\* ping returns and the socket's descriptor is leaked (mem::forget, into_raw_fd)
drop_locals_leak ==
  /\ UNCHANGED sock
  /\ rxq' = << >>
  /\ inflight' = {}
  /\ packet' = << >>
  /\ buf' = NoBuf
  /\ type_read' = FALSE

\* ping returns: its locals are dropped. Dropping the socket closes it, which
\* frees its receive queue; no reply can reach it any more.
drop_locals ==
  /\ sock' = IF sock = "open" THEN "closed" ELSE sock
  /\ rxq' = << >>
  /\ inflight' = {}
  /\ packet' = << >>
  /\ buf' = NoBuf
  /\ type_read' = FALSE

\* `?` on an Err: return it
Fail(call, msg) ==
  /\ faults' = faults \cup { call }
  /\ result' = << "Err", msg >>
  /\ drop_locals
  /\ pc' = "main"

\* target_with_port.to_socket_addrs() succeeds
ResolveOk ==
  /\ pc = "resolve"
  /\ \E as \in AddrLists : address_iter' = as
  /\ pc' = "first_addr"
  /\ UNCHANGED << type_read, buildVars, ckVars, sumVars, xmlVars, faults, os_pid, target_socket_addr, sock, read_timeout, pid, seq,
                  packet, buf, result, stdout, stderr, exit_code, built,
                  sendLog, recvLog, inflight, rxq, foreign >>

\* target_with_port.to_socket_addrs() fails
ResolveErr ==
  /\ pc = "resolve"
  /\ Fail("to_socket_addrs", ErrDns)
  /\ UNCHANGED << buildVars, ckVars, sumVars, xmlVars, os_pid, address_iter, target_socket_addr,
                  read_timeout, pid, seq, stdout, stderr, exit_code, built,
                  sendLog, recvLog, foreign >>

\* address_iter.next().ok_or(..)?
FirstAddr ==
  /\ pc = "first_addr"
  /\ IF address_iter = << >>
       THEN /\ Fail("next", ErrNoRecord)
            /\ UNCHANGED << address_iter, target_socket_addr >>
       ELSE /\ target_socket_addr' = Head(address_iter)
            /\ address_iter' = Tail(address_iter)
            /\ pc' = "socket"
            /\ UNCHANGED << result, sock, faults, packet, buf, type_read, inflight, rxq >>
  /\ UNCHANGED << buildVars, ckVars, sumVars, xmlVars, os_pid, read_timeout, pid, seq, stdout,
                  stderr, exit_code, built, sendLog, recvLog, foreign >>

\* socket2::Socket::new(IPV4, RAW, ICMPV4) succeeds
SocketOk ==
  /\ pc = "socket"
  /\ sock' = "open"
  /\ pc' = "set_timeout"
  /\ UNCHANGED << type_read, buildVars, ckVars, sumVars, xmlVars, faults, os_pid, address_iter, target_socket_addr, read_timeout, pid,
                  seq, packet, buf, result, stdout, stderr, exit_code, built,
                  sendLog, recvLog, inflight, rxq, foreign >>

\* socket2::Socket::new fails (no privilege, for one)
SocketErr ==
  /\ pc = "socket"
  /\ Fail("Socket::new", ErrSocket)
  /\ UNCHANGED << buildVars, ckVars, sumVars, xmlVars, os_pid, address_iter, target_socket_addr,
                  read_timeout, pid, seq, stdout, stderr, exit_code, built,
                  sendLog, recvLog, foreign >>

\* socket.set_read_timeout(Some(1 s)) succeeds
SetTimeoutOk ==
  /\ pc = "set_timeout"
  /\ read_timeout' = TRUE
  /\ pc' = "pid"
  /\ UNCHANGED << type_read, buildVars, ckVars, sumVars, xmlVars, faults, os_pid, address_iter, target_socket_addr, sock, pid, seq,
                  packet, buf, result, stdout, stderr, exit_code, built,
                  sendLog, recvLog, inflight, rxq, foreign >>

\* set_read_timeout fails and the error is dropped (let _ = ..)
SetTimeoutErrIgnored ==
  /\ pc = "set_timeout"
  /\ faults' = faults \cup { "set_read_timeout" }
  /\ pc' = "pid"
  /\ UNCHANGED << type_read, buildVars, ckVars, sumVars, xmlVars, os_pid, address_iter, target_socket_addr,
                  sock, read_timeout, pid, seq, packet, buf, result, stdout,
                  stderr, exit_code, built, sendLog, recvLog, inflight, rxq,
                  foreign >>

\* socket.set_read_timeout fails
SetTimeoutErr ==
  /\ pc = "set_timeout"
  /\ Fail("set_read_timeout", ErrSetTimeout)
  /\ UNCHANGED << buildVars, ckVars, sumVars, xmlVars, os_pid, address_iter, target_socket_addr,
                  read_timeout, pid, seq, stdout, stderr, exit_code, built,
                  sendLog, recvLog, foreign >>

\* let pid = std::process::id() as u16;
GetPid ==
  /\ pc = "pid"
  /\ pid' = as_u16(os_pid)
  /\ pc' = "loop"
  /\ UNCHANGED << type_read, buildVars, ckVars, sumVars, xmlVars, faults, os_pid, address_iter, target_socket_addr, sock, read_timeout,
                  seq, packet, buf, result, stdout, stderr, exit_code, built,
                  sendLog, recvLog, inflight, rxq, foreign >>

\* for seq in 0..5 { let packet = build_packet(seq, pid); .. }
LoopBuild ==
  /\ pc = "loop"
  /\ seq < ProbeCount
  /\ packet' = build_packet(seq, pid)
  /\ built' = Append(built, build_packet(seq, pid))
  /\ pc' = "send"
  /\ UNCHANGED << type_read, buildVars, ckVars, sumVars, xmlVars, faults, os_pid, address_iter, target_socket_addr, sock, read_timeout,
                  pid, seq, buf, result, stdout, stderr, exit_code, sendLog,
                  recvLog, inflight, rxq, foreign >>

\* the range is exhausted: Ok(())
LoopDone ==
  /\ pc = "loop"
  /\ ~(seq < ProbeCount)
  /\ result' = << "Ok" >>
  /\ drop_locals
  /\ pc' = "main"
  /\ UNCHANGED << buildVars, ckVars, sumVars, xmlVars, faults, os_pid, address_iter,
                  target_socket_addr, read_timeout, pid, seq, stdout, stderr,
                  exit_code, built, sendLog, recvLog, foreign >>

\* socket.send_to(&packet, &addr) succeeds: the request is on the network,
\* and a fresh receive buffer is declared
SendOk ==
  /\ pc = "send"
  /\ sendLog' = Append(sendLog,
                  [pkt |-> packet, addr |-> target_socket_addr, ok |-> TRUE])
  /\ inflight' = inflight \cup { Len(sendLog) + 1 }
  /\ buf' = NoBuf
  /\ pc' = "recv"
  /\ UNCHANGED << type_read, buildVars, ckVars, sumVars, xmlVars, faults, os_pid, address_iter, target_socket_addr, sock, read_timeout,
                  pid, seq, packet, result, stdout, stderr, exit_code, built,
                  recvLog, rxq, foreign >>

\* send_to fails and the loop goes on to the receive
SendErrContinue ==
  /\ pc = "send"
  /\ sendLog' = Append(sendLog,
                  [pkt |-> packet, addr |-> target_socket_addr, ok |-> FALSE])
  /\ faults' = faults \cup { "send_to" }
  /\ buf' = NoBuf
  /\ pc' = "recv"
  /\ UNCHANGED << type_read, buildVars, ckVars, sumVars, xmlVars, os_pid, address_iter, target_socket_addr,
                  sock, read_timeout, pid, seq, packet, result, stdout, stderr,
                  exit_code, built, recvLog, inflight, rxq, foreign >>

\* socket.send_to fails: map_err(..)? returns the error
SendErr ==
  /\ pc = "send"
  /\ sendLog' = Append(sendLog,
                  [pkt |-> packet, addr |-> target_socket_addr, ok |-> FALSE])
  /\ Fail("send_to", ErrSend)
  /\ UNCHANGED << buildVars, ckVars, sumVars, xmlVars, os_pid, address_iter, target_socket_addr,
                  read_timeout, pid, seq, stdout, stderr, exit_code, built,
                  recvLog, foreign >>

\* the line the Ok((n, _)) arm prints
recv_ok_line(r, s) == IF r.reply THEN ReplyLine(s) ELSE MalformedLine

\* the Ok arm, had it gone back to recv_from after a malformed datagram
RecvOkRetry ==
  /\ pc = "recv"
  /\ rxq # << >>
  /\ LET d == Head(rxq)
         n == Min(d.len, BufSize)
         b == [n |-> n, dgram |-> d]
     IN  /\ buf' = b
         /\ \E r \in classify(n, b) :
              /\ stdout' = Append(stdout, recv_ok_line(r, seq))
              /\ type_read' = r.read
              /\ recvLog' = Append(recvLog, [ok |-> TRUE])
              /\ pc' = IF r.reply THEN "sleep" ELSE "recv"
  /\ rxq' = Tail(rxq)
  /\ UNCHANGED << buildVars, ckVars, sumVars, xmlVars, faults, os_pid, address_iter, target_socket_addr, sock, read_timeout,
                  pid, seq, packet, result, stderr, exit_code, built, sendLog,
                  inflight, foreign >>

\* socket.recv_from(&mut buf) returns Ok((n, _)): the oldest queued datagram,
\* cut to the buffer's size; it is classified and one line is printed
RecvOk ==
  /\ pc = "recv"
  /\ rxq # << >>
  /\ LET d == Head(rxq)
         n == Min(d.len, BufSize)
         b == [n |-> n, dgram |-> d]
     IN  /\ buf' = b
         /\ \E r \in classify(n, b) :
              /\ stdout' = Append(stdout, recv_ok_line(r, seq))
              /\ type_read' = r.read
              /\ recvLog' = Append(recvLog, [ok |-> TRUE])
  /\ rxq' = Tail(rxq)
  /\ pc' = "sleep"
  /\ UNCHANGED << buildVars, ckVars, sumVars, xmlVars, faults, os_pid, address_iter, target_socket_addr, sock, read_timeout,
                  pid, seq, packet, result, stderr, exit_code, built, sendLog,
                  inflight, foreign >>

\* the Err(_) arm, had it propagated the error with `?`
on_recv_err_abort ==
  /\ Fail("recv_from", "recv_from failed")
  /\ UNCHANGED stdout

\* the Err(_) arm, had it sent the same probe again without a report
on_recv_err_resend ==
  /\ pc' = "send"
  /\ UNCHANGED << stdout, result, sock, faults, packet, buf, type_read, inflight, rxq >>

\* what the Err(_) arm of the match does
on_recv_err ==
  /\ stdout' = Append(stdout, TimeoutLine(seq))
  /\ pc' = "sleep"
  /\ UNCHANGED << result, sock, faults, packet, buf, type_read, inflight, rxq >>

\* socket.recv_from returns Err: the read timeout passed with nothing queued,
\* or the read failed otherwise
RecvErr ==
  /\ pc = "recv"
  /\ recvLog' = Append(recvLog, [ok |-> FALSE])
  /\ on_recv_err
  /\ UNCHANGED << buildVars, ckVars, sumVars, xmlVars, os_pid, address_iter, target_socket_addr,
                  read_timeout, pid, seq, stderr, exit_code, built, sendLog,
                  foreign >>

\* std::thread::sleep(1 s); the iteration's packet and buf go out of scope,
\* then the next value of the range
Sleep ==
  /\ pc = "sleep"
  /\ seq' = seq + 1
  /\ packet' = << >>
  /\ buf' = NoBuf
  /\ type_read' = FALSE
  /\ pc' = "loop"
  /\ UNCHANGED << buildVars, ckVars, sumVars, xmlVars, faults, os_pid, address_iter,
                  target_socket_addr, sock, read_timeout, pid, result, stdout,
                  stderr, exit_code, built, sendLog, recvLog, inflight, rxq,
                  foreign >>

\* main without std::process::exit(1)
MainReportExitZero ==
  /\ pc = "main"
  /\ stderr' = IF result[1] = "Err" THEN Append(stderr, result[2]) ELSE stderr
  /\ exit_code' = 0
  /\ pc' = "exit"
  /\ UNCHANGED << type_read, buildVars, ckVars, sumVars, xmlVars, faults, os_pid, address_iter,
                  target_socket_addr, sock, read_timeout, pid, seq, packet, buf,
                  result, stdout, built, sendLog, recvLog, inflight, rxq,
                  foreign >>

\* main: if let Err(err) = commandline::run(..) { eprint!; exit(1) }
MainReport ==
  /\ pc = "main"
  /\ IF result[1] = "Err"
       THEN /\ stderr' = Append(stderr, result[2])
            /\ exit_code' = 1
       ELSE /\ exit_code' = 0
            /\ UNCHANGED stderr
  /\ pc' = "exit"
  /\ UNCHANGED << type_read, buildVars, ckVars, sumVars, xmlVars, faults, os_pid, address_iter, target_socket_addr, sock, read_timeout,
                  pid, seq, packet, buf, result, stdout, built, sendLog,
                  recvLog, inflight, rxq, foreign >>

(***************************************************************************)
(* The network, while the socket is open.                                  *)
(***************************************************************************)
\* a datagram reaches the socket: queued, or dropped when the queue is full
enqueue(d) == IF Len(rxq) < MaxRxq THEN Append(rxq, d) ELSE rxq

\* the target answers request i, however late
NetReply ==
  /\ sock = "open"
  /\ \E i \in inflight :
       /\ inflight' = inflight \ { i }
       /\ rxq' = enqueue(echo_reply_to(sendLog[i].pkt))
  /\ UNCHANGED << type_read, buildVars, ckVars, sumVars, xmlVars, faults, pc, os_pid, address_iter, target_socket_addr, sock,
                  read_timeout, pid, seq, packet, buf, result, stdout, stderr,
                  exit_code, built, sendLog, recvLog, foreign >>

\* request i or its reply is lost
NetDrop ==
  /\ sock = "open"
  /\ \E i \in inflight : inflight' = inflight \ { i }
  /\ UNCHANGED << type_read, buildVars, ckVars, sumVars, xmlVars, faults, pc, os_pid, address_iter, target_socket_addr, sock,
                  read_timeout, pid, seq, packet, buf, result, stdout, stderr,
                  exit_code, built, sendLog, recvLog, rxq, foreign >>

\* unrelated ICMP traffic of the host reaches the raw socket
NetForeign ==
  /\ sock = "open"
  /\ foreign < MaxForeign
  /\ \E d \in ForeignDatagrams : rxq' = enqueue(d)
  /\ foreign' = foreign + 1
  /\ UNCHANGED << type_read, buildVars, ckVars, sumVars, xmlVars, faults, pc, os_pid, address_iter, target_socket_addr, sock,
                  read_timeout, pid, seq, packet, buf, result, stdout, stderr,
                  exit_code, built, sendLog, recvLog, inflight >>

BuildIdle ==
  /\ b_seq = 0 /\ b_id = 0 /\ b_pc = "idle" /\ b_packet = << >> /\ b_verify = 0

CkIdle ==
  /\ c_pc = "idle" /\ c_data = << >> /\ c_sent = << >> /\ c_flips = 0
  /\ c_verify = 0

SumIdle ==
  /\ s_pc = "idle" /\ s_word = 0 /\ s_n = 0 /\ s_sum = u32_zero
  /\ s_folds = 0 /\ s_ovf = FALSE /\ s_ret = 0

XmlIdle ==
  /\ x_pc = "idle" /\ x_out = << >> /\ x_indent = 0
  /\ x_child_is_text = FALSE /\ x_ret = << >> /\ x_open = << >>
  /\ x_events = 0

Init == PingInit /\ BuildIdle /\ CkIdle /\ SumIdle /\ XmlIdle

ProgStep ==
  \/ ResolveOk \/ ResolveErr \/ FirstAddr \/ SocketOk \/ SocketErr
  \/ SetTimeoutOk \/ SetTimeoutErr \/ GetPid \/ LoopBuild \/ LoopDone
  \/ SendOk \/ SendErr \/ RecvOk \/ RecvErr \/ Sleep \/ MainReport

NetStep == NetReply \/ NetDrop \/ NetForeign

Next == ProgStep \/ NetStep

Spec == Init /\ [][Next]_vars

\* the program's own steps are taken while they are enabled: a blocking call
\* returns, the single thread runs on
FairSpec == Spec /\ WF_vars(ProgStep)

(***************************************************************************)
(* BuildSpec: build_packet on sampled inputs, then checksum over the       *)
(* finished packet.                                                        *)
(***************************************************************************)
\* u16 values around the places where the sum carries or a byte rolls over
U16Samples ==
  { 0, 1, 4, 255, 256, 4660, 32767, 32768, 63486, 63487, 63488, 65534, 65535 }

PingIdle ==
  /\ pc = "idle"
  /\ os_pid = 0
  /\ address_iter = << >>
  /\ target_socket_addr = "none"
  /\ sock = "none"
  /\ read_timeout = FALSE
  /\ pid = 0
  /\ seq = 0
  /\ packet = << >>
  /\ buf = NoBuf
  /\ result = << "none" >>
  /\ stdout = << >>
  /\ stderr = << >>
  /\ exit_code = -1
  /\ built = << >>
  /\ sendLog = << >>
  /\ recvLog = << >>
  /\ type_read = FALSE
  /\ inflight = {}
  /\ rxq = << >>
  /\ foreign = 0
  /\ faults = {}

BuildInit ==
  /\ b_seq \in U16Samples
  /\ b_id \in U16Samples
  /\ b_pc = "start"
  /\ b_packet = << >>
  /\ b_verify = -1
  /\ PingIdle
  /\ CkIdle
  /\ SumIdle
  /\ XmlIdle

\* let packet = build_packet(seq, pid);
BuildCall ==
  /\ b_pc = "start"
  /\ b_packet' = build_packet(b_seq, b_id)
  /\ b_pc' = "built"
  /\ UNCHANGED << b_seq, b_id, b_verify, pingVars, ckVars, sumVars, xmlVars >>

\* checksum(&packet) over the finished packet, as a receiver verifies it
BuildVerify ==
  /\ b_pc = "built"
  /\ b_verify' = checksum(b_packet)
  /\ b_pc' = "verified"
  /\ UNCHANGED << b_seq, b_id, b_packet, pingVars, ckVars, sumVars, xmlVars >>

BuildNext == BuildCall \/ BuildVerify

BuildSpec == BuildInit /\ [][BuildNext]_vars

(***************************************************************************)
(* CkSpec: a byte sequence gets its checksum computed with the checksum    *)
(* field (bytes 2-3) zero and inserted, bits are flipped on the way, and   *)
(* the checksum is recomputed over the whole sequence.                     *)
(***************************************************************************)
ByteSamples == { 0, 1, 255 }

\* the bits of a byte that the channel may flip
FlipBits == { 0, 7 }

\* the shortest sequence that has a checksum field
MinDataLen == 4

RECURSIVE SeqsOfLen(_, _)
SeqsOfLen(S, n) ==
  IF n = 0 THEN { << >> }
  ELSE { Append(q, x) : q \in SeqsOfLen(S, n - 1), x \in S }

DataSamples == UNION { SeqsOfLen(ByteSamples, n) : n \in MinDataLen..MaxDataLen }

RECURSIVE pow2(_)
pow2(b) == IF b = 0 THEN 1 ELSE 2 * pow2(b - 1)

flip_bit(x, b) ==
  IF (x \div pow2(b)) % 2 = 1 THEN x - pow2(b) ELSE x + pow2(b)

zero_field(d) == [d EXCEPT ![3] = 0, ![4] = 0]

CkInit ==
  /\ c_data \in DataSamples
  /\ c_sent = << >>
  /\ c_pc = "start"
  /\ c_flips = 0
  /\ c_verify = -1
  /\ PingIdle
  /\ BuildIdle
  /\ SumIdle
  /\ XmlIdle

\* packet[2] = 0; packet[3] = 0; let cs = checksum(&packet);
\* packet[2..4].copy_from_slice(&cs.to_be_bytes());
CkInsert ==
  /\ c_pc = "start"
  /\ c_data' = put_checksum(zero_field(c_data), checksum(zero_field(c_data)))
  /\ c_sent' = c_data'
  /\ c_pc' = "inserted"
  /\ UNCHANGED << c_flips, c_verify, pingVars, buildVars, sumVars, xmlVars >>

\* one bit of the sequence is altered after the checksum went in
CkFlip ==
  /\ c_pc = "inserted"
  /\ c_flips < MaxFlips
  /\ \E i \in 1..Len(c_data), b \in FlipBits :
       c_data' = [c_data EXCEPT ![i] = flip_bit(c_data[i], b)]
  /\ c_flips' = c_flips + 1
  /\ UNCHANGED << c_pc, c_sent, c_verify, pingVars, buildVars, sumVars, xmlVars >>

\* the receiver recomputes checksum over the full sequence, field populated
CkVerify ==
  /\ c_pc = "inserted"
  /\ c_verify' = checksum(c_data)
  /\ c_pc' = "verified"
  /\ UNCHANGED << c_data, c_sent, c_flips, pingVars, buildVars, sumVars, xmlVars >>

CkNext == CkInsert \/ CkFlip \/ CkVerify

CkSpec == CkInit /\ [][CkNext]_vars

(***************************************************************************)
(* Properties of a run (Spec).                                             *)
(***************************************************************************)
(***************************************************************************)
(* checksum over short inputs of either parity.                            *)
(***************************************************************************)
\* the longest input
MaxPadLen == 3

PadBytes == { 0, 1, 171, 255 }

PadSamples == UNION { SeqsOfLen(PadBytes, n) : n \in 0..MaxPadLen }

PadInit ==
  /\ c_data \in PadSamples
  /\ c_sent = << >>
  /\ c_pc = "pad_start"
  /\ c_flips = 0
  /\ c_verify = -1
  /\ PingIdle
  /\ BuildIdle
  /\ SumIdle
  /\ XmlIdle

\* let cs = checksum(&data)
PadSum ==
  /\ c_pc = "pad_start"
  /\ c_verify' = checksum(c_data)
  /\ c_pc' = "summed"
  /\ UNCHANGED << c_data, c_sent, c_flips, pingVars, buildVars, sumVars, xmlVars >>

PadNext == PadSum

PadSpec == PadInit /\ [][PadNext]_vars

(***************************************************************************)
(* checksum's two loops, step by step, over long inputs.                   *)
(***************************************************************************)
\* the longest input, in chunks
MaxWords == 65538

WordSamples == { 65534, 65535 }

SumInit ==
  /\ s_pc = "sum"
  /\ s_word \in WordSamples
  /\ s_n = 0
  /\ s_sum = u32_zero
  /\ s_folds = 0
  /\ s_ovf = FALSE
  /\ s_ret = -1
  /\ PingIdle
  /\ BuildIdle
  /\ CkIdle
  /\ XmlIdle

\* the value of the next chunk of the input
next_val == chunk_val(to_be_bytes(s_word))

\* for chunk in chunks { .. sum += val as u32; }: one iteration, the sum
\* staying within u32
SumChunk ==
  /\ s_pc = "sum"
  /\ s_n < MaxWords
  /\ ~u32_add_overflows(s_sum, next_val)
  /\ s_sum' = u32_add_u16(s_sum, next_val)
  /\ s_n' = s_n + 1
  /\ UNCHANGED << s_pc, s_word, s_folds, s_ovf, s_ret, pingVars, buildVars, ckVars, xmlVars >>

\* sum += val as u32 exceeds u32::MAX in a build without overflow checks
\* (release profile): the sum wraps
SumChunkWrap ==
  /\ s_pc = "sum"
  /\ s_n < MaxWords
  /\ u32_add_overflows(s_sum, next_val)
  /\ s_sum' = u32_add_u16(s_sum, next_val)
  /\ s_n' = s_n + 1
  /\ s_ovf' = TRUE
  /\ UNCHANGED << s_pc, s_word, s_folds, s_ret, pingVars, buildVars, ckVars, xmlVars >>

\* sum += val as u32 exceeds u32::MAX in a build with overflow checks (debug
\* profile): panic, "attempt to add with overflow"
SumChunkPanic ==
  /\ s_pc = "sum"
  /\ s_n < MaxWords
  /\ u32_add_overflows(s_sum, next_val)
  /\ s_n' = s_n + 1
  /\ s_ovf' = TRUE
  /\ s_pc' = "panic"
  /\ UNCHANGED << s_word, s_sum, s_folds, s_ret, pingVars, buildVars, ckVars, xmlVars >>

\* the chunks are exhausted: on to the while loop
SumEnd ==
  /\ s_pc = "sum"
  /\ s_pc' = "fold"
  /\ UNCHANGED << s_word, s_n, s_sum, s_folds, s_ovf, s_ret, pingVars, buildVars, ckVars, xmlVars >>

\* while (sum >> 16) != 0 { sum = (sum & 0xFFFF) + (sum >> 16) }: one
\* iteration
FoldStep ==
  /\ s_pc = "fold"
  /\ s_sum.hi # 0
  /\ s_sum' = fold_step(s_sum)
  /\ s_folds' = s_folds + 1
  /\ UNCHANGED << s_pc, s_word, s_n, s_ovf, s_ret, pingVars, buildVars, ckVars, xmlVars >>

\* the loop's condition is false: !(sum as u16)
SumReturn ==
  /\ s_pc = "fold"
  /\ ~(s_sum.hi # 0)
  /\ s_ret' = (U16 - 1) - s_sum.lo
  /\ s_pc' = "done"
  /\ UNCHANGED << s_word, s_n, s_sum, s_folds, s_ovf, pingVars, buildVars, ckVars, xmlVars >>

SumNext ==
  \/ SumChunk \/ SumChunkWrap \/ SumChunkPanic \/ SumEnd \/ FoldStep
  \/ SumReturn

SumSpec == SumInit /\ [][SumNext]_vars

(***************************************************************************)
(* prettify_xml (prettify_xml.rs 14-153)                                   *)
(*                                                                         *)
(* The reader hands over one event per iteration. The output is kept as a  *)
(* sequence of tokens: a newline, one indent_str, or one piece of markup   *)
(* or text; a markup token also records the number of elements open around *)
(* it and, for a closing tag, the kinds of children its element had.       *)
(***************************************************************************)
\* the most events of one input
MaxEvents == 5

\* the deepest nesting of one input
MaxDepth == 3

\* elements of the input: a bare one and one with an attribute
Elements == { [name |-> "a", attrs |-> << >>],
              [name |-> "b", attrs |-> << << "k", "v" >> >>] }

NoElement == [name |-> "", attrs |-> << >>]

tok(k, el, text, lvl, kids) ==
  [k |-> k, el |-> el, text |-> text, lvl |-> lvl, kids |-> kids]

\* "\n".repeat(1)
NL == tok("nl", NoElement, "\n", 0, {})

\* indent_str
IND == tok("ind", NoElement, "  ", 0, {})

\* indent_str.repeat(n)
repeat(t, n) == [i \in 1..n |-> t]

\* output.trim_start(): the leading whitespace goes
RECURSIVE trim_start(_)
trim_start(out) ==
  IF out # << >> /\ Head(out).k \in { "nl", "ind" }
    THEN trim_start(Tail(out))
    ELSE out

\* the innermost open element gets a child of this kind
add_kid(open, kind) ==
  IF open = << >> THEN open
  ELSE [open EXCEPT ![Len(open)].kids = @ \cup { kind }]

XmlInit ==
  /\ x_pc = "loop"
  /\ x_out = << >>
  /\ x_indent = 0
  /\ x_child_is_text = FALSE
  /\ x_ret = << >>
  /\ x_open = << >>
  /\ x_events = 0
  /\ PingIdle
  /\ BuildIdle
  /\ CkIdle
  /\ SumIdle

\* Event::Start
XmlStart ==
  /\ x_pc = "loop"
  /\ x_events < MaxEvents
  /\ Len(x_open) < MaxDepth
  /\ \E e \in Elements :
       /\ x_out' = x_out \o << NL >> \o repeat(IND, x_indent)
                         \o << tok("open", e, "", Len(x_open), {}) >>
       /\ x_open' = Append(add_kid(x_open, "element"), [name |-> e.name, kids |-> {}])
  /\ x_indent' = x_indent + 1
  /\ x_events' = x_events + 1
  /\ UNCHANGED << x_pc, x_child_is_text, x_ret, pingVars, buildVars, ckVars, sumVars >>

\* Event::End: the reader hands it over for the innermost open element.
\* indent -= 1 on a usize 0 aborts: a panic with overflow checks, without
\* them a wrap to usize::MAX and a capacity overflow in repeat
XmlEnd ==
  /\ x_pc = "loop"
  /\ x_events < MaxEvents
  /\ x_open # << >>
  /\ IF x_indent = 0
       THEN /\ x_pc' = "panic"
            /\ UNCHANGED << x_out, x_indent, x_child_is_text, x_open >>
       ELSE /\ x_indent' = x_indent - 1
            /\ x_out' = x_out
                          \o (IF ~x_child_is_text
                                THEN << NL >> \o repeat(IND, x_indent - 1)
                                ELSE << >>)
                          \o << tok("close",
                                    [name |-> Last(x_open).name, attrs |-> << >>],
                                    "", Len(x_open) - 1, Last(x_open).kids) >>
            /\ x_child_is_text' = FALSE
            /\ x_open' = SubSeq(x_open, 1, Len(x_open) - 1)
            /\ UNCHANGED x_pc
  /\ x_events' = x_events + 1
  /\ UNCHANGED << x_ret, pingVars, buildVars, ckVars, sumVars >>

\* Event::Text: with trim_text(true) the reader hands over no empty text and
\* no two texts in a row
XmlText ==
  /\ x_pc = "loop"
  /\ x_events < MaxEvents
  /\ IF x_out = << >> THEN TRUE ELSE Last(x_out).k # "text"
  /\ \E text \in { "t" } :
       x_out' = IF text # "" THEN Append(x_out, tok("text", NoElement, text, Len(x_open), {}))
                ELSE x_out
  /\ x_child_is_text' = TRUE
  /\ x_open' = add_kid(x_open, "text")
  /\ x_events' = x_events + 1
  /\ UNCHANGED << x_pc, x_indent, x_ret, pingVars, buildVars, ckVars, sumVars >>

\* Event::CData
XmlCData ==
  /\ x_pc = "loop"
  /\ x_events < MaxEvents
  /\ x_out' = Append(x_out, tok("cdata", NoElement, "d", Len(x_open), {}))
  /\ x_open' = add_kid(x_open, "cdata")
  /\ x_events' = x_events + 1
  /\ UNCHANGED << x_pc, x_indent, x_child_is_text, x_ret, pingVars, buildVars, ckVars, sumVars >>

\* Event::Comment
XmlComment ==
  /\ x_pc = "loop"
  /\ x_events < MaxEvents
  /\ x_out' = x_out \o << NL >> \o repeat(IND, x_indent)
                    \o << tok("comment", NoElement, "c", Len(x_open), {}) >>
  /\ x_open' = add_kid(x_open, "comment")
  /\ x_events' = x_events + 1
  /\ UNCHANGED << x_pc, x_indent, x_child_is_text, x_ret, pingVars, buildVars, ckVars, sumVars >>

\* Event::Decl: the declaration opens the input; no indent_str is written
XmlDecl ==
  /\ x_pc = "loop"
  /\ x_events < MaxEvents
  /\ x_events = 0
  /\ x_out' = x_out \o << NL, tok("decl", NoElement, "1.0", Len(x_open), {}) >>
  /\ x_events' = x_events + 1
  /\ UNCHANGED << x_pc, x_indent, x_child_is_text, x_ret, x_open, pingVars, buildVars, ckVars, sumVars >>

\* Event::Empty, had it counted as an opening tag
XmlEmptyIndent ==
  /\ x_pc = "loop"
  /\ x_events < MaxEvents
  /\ \E e \in Elements :
       x_out' = x_out \o << NL >> \o repeat(IND, x_indent)
                     \o << tok("empty", e, "", Len(x_open), {}) >>
  /\ x_open' = add_kid(x_open, "element")
  /\ x_indent' = x_indent + 1
  /\ x_events' = x_events + 1
  /\ UNCHANGED << x_pc, x_child_is_text, x_ret, pingVars, buildVars, ckVars, sumVars >>

\* Event::Empty
XmlEmpty ==
  /\ x_pc = "loop"
  /\ x_events < MaxEvents
  /\ \E e \in Elements :
       x_out' = x_out \o << NL >> \o repeat(IND, x_indent)
                     \o << tok("empty", e, "", Len(x_open), {}) >>
  /\ x_open' = add_kid(x_open, "element")
  /\ x_events' = x_events + 1
  /\ UNCHANGED << x_pc, x_indent, x_child_is_text, x_ret, pingVars, buildVars, ckVars, sumVars >>

\* Event::PI, here outside the elements
XmlPI ==
  /\ x_pc = "loop"
  /\ x_events < MaxEvents
  /\ x_open = << >>
  /\ x_out' = x_out \o << NL >> \o repeat(IND, x_indent)
                    \o << tok("pi", NoElement, "p", Len(x_open), {}) >>
  /\ x_events' = x_events + 1
  /\ UNCHANGED << x_pc, x_indent, x_child_is_text, x_ret, x_open, pingVars, buildVars, ckVars, sumVars >>

\* Event::DocType, here before the first element
XmlDocType ==
  /\ x_pc = "loop"
  /\ x_events < MaxEvents
  /\ x_events <= 1
  /\ x_open = << >>
  /\ x_out' = x_out \o << NL >> \o repeat(IND, x_indent)
                    \o << tok("doctype", NoElement, "html", Len(x_open), {}) >>
  /\ x_events' = x_events + 1
  /\ UNCHANGED << x_pc, x_indent, x_child_is_text, x_ret, x_open, pingVars, buildVars, ckVars, sumVars >>

\* Event::Eof => break; Ok(output.trim_start().to_string())
XmlEof ==
  /\ x_pc = "loop"
  /\ x_ret' = trim_start(x_out)
  /\ x_pc' = "done"
  /\ UNCHANGED << x_out, x_indent, x_child_is_text, x_open, x_events, pingVars, buildVars, ckVars, sumVars >>

\* read_event_into(..)?, attr?, decode()?, unescape()? or version()? hands
\* back an error: prettify_xml returns it and its locals are dropped
XmlErr ==
  /\ x_pc = "loop"
  /\ x_pc' = "err"
  /\ x_out' = << >>
  /\ x_indent' = 0
  /\ x_child_is_text' = FALSE
  /\ x_open' = << >>
  /\ x_events' = 0
  /\ UNCHANGED << x_ret, pingVars, buildVars, ckVars, sumVars >>

XmlNext ==
  \/ XmlStart \/ XmlEnd \/ XmlText \/ XmlCData \/ XmlComment \/ XmlDecl
  \/ XmlEmpty \/ XmlPI \/ XmlDocType \/ XmlEof \/ XmlErr

XmlSpec == XmlInit /\ [][XmlNext]_vars

Terminal == pc \in { "main", "exit" }

SetupCalls == { "to_socket_addrs", "next", "Socket::new", "set_read_timeout" }

SendsOk == { i \in DOMAIN sendLog : sendLog[i].ok }

AllSendsOk == \A i \in DOMAIN sendLog : sendLog[i].ok

AllRecvFailed == \A i \in DOMAIN recvLog : ~recvLog[i].ok

C3_SetupFailureNoProbe ==
  (faults \cap SetupCalls # {}) =>
    /\ Terminal
    /\ result[1] = "Err"
    /\ result[2] \in SetupErrors
    /\ built = << >>
    /\ sendLog = << >>
    /\ recvLog = << >>
    /\ stdout = << >>
    /\ inflight = {}

C3_Witness ==
  /\ pc = "exit"
  /\ "set_read_timeout" \in faults
  /\ sock = "closed"

\* C4: when the send for sequence number s fails, the run has ended with the
\* send error: that send_to call is the last one (no retry, no later send),
\* there are exactly s receives and s printed lines (none for s or later) and
\* exactly s + 1 packets built.
C4_SendFailureAborts ==
  \A i \in DOMAIN sendLog :
    ~sendLog[i].ok =>
      /\ Terminal
      /\ result = << "Err", ErrSend >>
      /\ i = Len(sendLog)
      /\ seq = i - 1
      /\ Len(recvLog) = i - 1
      /\ Len(stdout) = i - 1
      /\ Len(built) = i
      /\ pc = "exit" => exit_code = 1

C4_Witness ==
  /\ pc = "exit"
  /\ Len(sendLog) = 3
  /\ ~sendLog[3].ok
  /\ Len(stdout) = 2

C9_ReplyClassification ==
  /\ \A i \in DOMAIN recvLog :
       recvLog[i].ok <=> stdout[i] \in { ReplyLine(i - 1), MalformedLine }
  /\ (pc = "sleep" /\ Last(recvLog).ok) =>
       /\ (Last(stdout) = ReplyLine(seq)) <=>
            (buf.n >= 28 /\ byte_at(buf.dgram, 20) = 0)
       /\ buf.n < 28 => ~type_read
  /\ type_read => (pc = "sleep" /\ buf.n > 20)

C9_Witness ==
  /\ pc = "sleep"
  /\ Last(recvLog).ok
  /\ buf.n = 27
  /\ byte_at(buf.dgram, 20) = 0
  /\ Last(stdout) = MalformedLine
  /\ stdout[1] = ReplyLine(0)

\* C10 as stated: while the program waits for the reply to the probe it has
\* just sent, no earlier request of the run is still on the network.
C10_NoEarlierOutstanding ==
  pc = "recv" => inflight \subseteq { Len(sendLog) }

\* C10 as amended: the program handles one probe at a time. The sends that
\* succeeded outnumber the receives that returned by one while the program
\* waits in recv_from and by none otherwise, the probe being waited for is the
\* one with the current sequence number, and every other request still on the
\* network belongs to a probe whose receive has already returned.
C10_OneProbeAtATime ==
  /\ Cardinality(SendsOk) - Len(recvLog) = (IF pc = "recv" THEN 1 ELSE 0)
  /\ Len(stdout) = Len(recvLog)
  /\ pc = "recv" => (Len(sendLog) = seq + 1 /\ Last(sendLog).ok)
  /\ \A i \in inflight :
       /\ i \in SendsOk
       /\ i <= Len(recvLog) \/ (pc = "recv" /\ i = Len(sendLog))

C10_Witness ==
  /\ pc = "recv"
  /\ seq = 2
  /\ inflight = { 1, 2, 3 }

\* C11: once Socket::new has succeeded the socket is closed in every state
\* after ping has returned (after the 5 probes, after a set_read_timeout
\* failure, after a send failure at any sequence number), it is closed only
\* then, and the program is at a send or a receive only while it is open.
C11_SocketClosedAtEnd ==
  /\ Terminal =>
       sock = (IF faults \cap { "to_socket_addrs", "next", "Socket::new" } = {}
                 THEN "closed" ELSE "none")
  /\ sock = "closed" => Terminal
  /\ pc \in { "set_timeout", "pid", "loop", "send", "recv", "sleep" } =>
       sock = "open"
  /\ sock # "open" => (rxq = << >> /\ inflight = {})

C11_Witness ==
  /\ pc = "exit"
  /\ sock = "closed"
  /\ faults = { "send_to" }
  /\ Len(sendLog) = 4

(***************************************************************************)
(* Properties of build_packet (BuildSpec).                                 *)
(***************************************************************************)
\* ones'-complement addition of two 16-bit words: the carry comes back in
oc_add(a, b) == IF a + b >= 65536 THEN a + b - 65535 ELSE a + b

\* the big-endian 16-bit word at bytes 2k-1, 2k (counted from 1)
word(p, k) == p[2 * k - 1] * 256 + p[2 * k]

\* C6: the finished packet verifies: the ones'-complement sum of its four
\* big-endian words, checksum field included, is 0xFFFF, and checksum over
\* the finished packet is 0.
C6_PacketVerifies ==
  /\ b_pc \in { "built", "verified" } =>
       oc_add(oc_add(oc_add(word(b_packet, 1), word(b_packet, 2)),
                     word(b_packet, 3)), word(b_packet, 4)) = 65535
  /\ b_pc = "verified" => b_verify = 0

C6_Witness ==
  /\ b_pc = "verified"
  /\ b_id = 63488
  /\ b_seq = 1
  /\ b_verify = 0

\* C8: build_packet returns 8 bytes: 8, 0, the checksum (big-endian) of the
\* same bytes with the checksum field zero, the identifier big-endian, the
\* sequence number big-endian; for sequence 0 and identifier 0x1234 these are
\* 08 00 E5 CB 12 34 00 00.
C8_PacketLayout ==
  b_pc \in { "built", "verified" } =>
    /\ Len(b_packet) = 8
    /\ b_packet[1] = 8
    /\ b_packet[2] = 0
    /\ b_packet[5] = b_id \div 256
    /\ b_packet[6] = b_id % 256
    /\ b_packet[7] = b_seq \div 256
    /\ b_packet[8] = b_seq % 256
    /\ b_packet[3] * 256 + b_packet[4] =
         checksum(<< 8, 0, 0, 0, b_packet[5], b_packet[6], b_packet[7], b_packet[8] >>)
    /\ \A i \in 1..8 : b_packet[i] \in 0..255
    /\ (b_seq = 0 /\ b_id = 4660) => b_packet = << 8, 0, 229, 203, 18, 52, 0, 0 >>

C8_Witness ==
  /\ b_pc = "built"
  /\ b_seq = 0
  /\ b_id = 4660
  /\ b_packet = << 8, 0, 229, 203, 18, 52, 0, 0 >>

(***************************************************************************)
(* Properties of checksum (CkSpec).                                        *)
(***************************************************************************)
\* C7 as stated: the checksum recomputed over the full sequence is 0 exactly
\* when no bit was altered after the checksum was inserted.
C7_ZeroIffUnaltered ==
  c_pc = "verified" => ((c_verify = 0) <=> (c_data = c_sent))

\* C7 as amended: the checksum recomputed over the full sequence is 0 when no
\* bit was altered after the checksum was inserted, and is not 0 when exactly
\* one bit was altered (alterations of two or more bits can cancel).
C7_ZeroIfUnaltered ==
  c_pc = "verified" =>
    /\ (c_data = c_sent) => c_verify = 0
    /\ (c_flips = 1) => c_verify # 0

C7_Witness ==
  /\ c_pc = "verified"
  /\ c_flips = 1
  /\ Len(c_data) = 5
  /\ c_verify # 0

(***************************************************************************)
(* Further properties of a ping run (Spec).                                *)
(***************************************************************************)

\* the Echo Request for sequence number s and identifier id, written out
\* byte by byte with the checksum in ones'-complement arithmetic
request_bytes(s, id) ==
  LET cs == 65535 - oc_add(oc_add(8 * 256, id), s)
  IN  << 8, 0, cs \div 256, cs % 256, id \div 256, id % 256,
         s \div 256, s % 256 >>

\* C17: while no call has failed, the packets handed to send_to are the Echo
\* Requests for sequence numbers 0, 1, .. in this order, all with the
\* identifier process id mod 2^16 and all to the one address taken first from
\* the resolved list; when ping returns Ok there are exactly 5 of them.
C17_SentPackets ==
  /\ faults = {} =>
       \A i \in DOMAIN sendLog :
         /\ sendLog[i].ok
         /\ sendLog[i].pkt = request_bytes(i - 1, os_pid % 65536)
         /\ sendLog[i].addr = target_socket_addr
         /\ << target_socket_addr >> \o address_iter \in AddrLists
  /\ (Terminal /\ result = << "Ok" >>) => (faults = {} /\ Len(sendLog) = 5)

C17_Witness ==
  /\ pc = "exit"
  /\ result = << "Ok" >>
  /\ Len(sendLog) = 5
  /\ os_pid >= 65536
  /\ sendLog[5].pkt = << 8, 0, 229, 199, 18, 52, 0, 4 >>

\* C18: a received datagram of at least 28 bytes whose byte 20 is 0 is
\* reported as the reply to the probe of the current iteration, with that
\* probe's sequence number, whatever identifier, sequence number and checksum
\* the datagram carries.
C18_NoCorrelation ==
  LET d == buf.dgram
      d_seq == from_be_bytes(byte_at(d, 26), byte_at(d, 27))
  IN  (/\ pc = "sleep"
       /\ Last(recvLog).ok
       /\ buf.n >= 28
       /\ byte_at(d, 20) = 0)
      => /\ Last(stdout) = ReplyLine(seq)
         /\ (d_seq # seq => Last(stdout) # ReplyLine(d_seq))

\* the reply to an earlier probe, arriving late, is reported for a later one
C18_Witness ==
  /\ pc = "sleep"
  /\ Last(recvLog).ok
  /\ buf.n = 28
  /\ from_be_bytes(byte_at(buf.dgram, 24), byte_at(buf.dgram, 25)) = pid
  /\ from_be_bytes(byte_at(buf.dgram, 26), byte_at(buf.dgram, 27)) < seq
  /\ Last(stdout) = ReplyLine(seq)

\* the lines one probe can end with
Outcomes(s) == { ReplyLine(s), MalformedLine, TimeoutLine(s) }

\* where the loop stands, in counts: probes built, send_to calls, recv_from
\* calls and lines printed; seq counts the sleeps
Counts == << Len(built), Len(sendLog), Len(recvLog), Len(stdout) >>

\* C16 as stated: in every run every probe that was built was sent, had its
\* receive attempt and its outcome line.
C16_EveryProbeReported ==
  Terminal =>
    /\ AllSendsOk
    /\ Len(sendLog) = Len(built)
    /\ Len(recvLog) = Len(built)
    /\ Len(stdout) = Len(built)

\* C16: the steps of the loop come in the order build, send, receive, report,
\* sleep, one of each per sequence number, and a probe is built only after
\* the sleep of the one before; every probe whose send succeeded has exactly
\* one receive attempt and one outcome line, printed before the next packet
\* is sent; a probe whose send failed has neither, and is the last.
C16_ProbePhases ==
  /\ pc \in { "resolve", "first_addr", "socket", "set_timeout", "pid" } =>
       (seq = 0 /\ Counts = << 0, 0, 0, 0 >>)
  /\ pc = "loop" => Counts = << seq, seq, seq, seq >>
  /\ pc = "send" => Counts = << seq + 1, seq, seq, seq >>
  /\ pc = "recv" => Counts = << seq + 1, seq + 1, seq, seq >>
  /\ pc = "sleep" => Counts = << seq + 1, seq + 1, seq + 1, seq + 1 >>
  /\ Terminal =>
       \/ Counts = << seq, seq, seq, seq >> /\ "send_to" \notin faults
       \/ Counts = << seq + 1, seq + 1, seq, seq >> /\ "send_to" \in faults
  /\ seq <= 5
  /\ \A i \in DOMAIN built : built[i][7] * 256 + built[i][8] = i - 1
  /\ \A i \in DOMAIN sendLog :
       /\ sendLog[i].pkt = built[i]
       /\ ~sendLog[i].ok => (i = Len(sendLog) /\ Terminal)
  /\ \A i \in DOMAIN stdout : stdout[i] \in Outcomes(i - 1)
  /\ Len(rxq) + Cardinality(inflight) + Cardinality({ i \in DOMAIN recvLog : recvLog[i].ok })
       <= Cardinality(SendsOk) + foreign

C16_Witness ==
  /\ pc = "exit"
  /\ "send_to" \in faults
  /\ Counts = << 3, 3, 2, 2 >>
  /\ recvLog[1].ok
  /\ ~recvLog[2].ok

(***************************************************************************)
(* Properties of checksum over inputs of odd length (PadSpec).             *)
(***************************************************************************)
\* the ones'-complement sum of the first k big-endian words of p
RECURSIVE oc_sum(_, _)
oc_sum(p, k) == IF k = 0 THEN 0 ELSE oc_add(oc_sum(p, k - 1), word(p, k))

\* C12: for an input of odd length checksum returns what it returns for the
\* input followed by one 0 byte, which is the complement of the
\* ones'-complement sum of the words of the padded input; the single byte
\* 0xAB gives 0x54FF, the complement of 0xAB00.
C12_OddLengthPadded ==
  (c_pc = "summed" /\ Len(c_data) % 2 = 1) =>
    /\ c_verify = checksum(Append(c_data, 0))
    /\ c_verify = 65535 - oc_sum(Append(c_data, 0), (Len(c_data) + 1) \div 2)
    /\ c_data = << 171 >> => c_verify = 21759

C12_Witness ==
  /\ c_pc = "summed"
  /\ c_data = << 171 >>
  /\ c_verify = 84 * 256 + 255

(***************************************************************************)
(* Properties of checksum's loops (SumSpec).                               *)
(***************************************************************************)
\* the ones'-complement sum of n words that all equal w, by doubling
RECURSIVE oc_times(_, _)
oc_times(w, n) ==
  IF n = 0 THEN 0
  ELSE IF n % 2 = 0
    THEN LET h == oc_times(w, n \div 2) IN oc_add(h, h)
    ELSE oc_add(oc_times(w, n - 1), w)

\* C13 as stated: for every input the accumulator stays within 32 bits while
\* summing, checksum returns, and what it returns is the complement of the
\* ones'-complement sum of the words.
C13_NeverOverflows ==
  /\ ~s_ovf
  /\ s_pc # "panic"
  /\ s_pc = "done" => s_ret = 65535 - oc_times(s_word, s_n)

\* C13: the while loop runs at most twice, after which the sum fits in 16
\* bits, also when it runs twice; for an input of at most 65537 words the
\* accumulator does not exceed u32::MAX while summing and the value
\* returned is the complement of the ones'-complement sum of the words.
C13_FoldTerminates ==
  /\ s_folds <= 2
  /\ s_folds >= 1 => s_sum.hi <= 1
  /\ s_folds = 2 => s_sum.hi = 0
  /\ s_pc = "done" => (s_sum.hi = 0 /\ s_sum.lo < 65536 /\ s_ret = 65535 - s_sum.lo)
  /\ s_n <= 65537 =>
       /\ ~s_ovf
       /\ s_pc # "panic"
       /\ s_pc = "done" => s_ret = 65535 - oc_times(s_word, s_n)

\* 65537 words 0xFFFF sum to u32::MAX and take two folds
C13_Witness ==
  /\ s_pc = "done"
  /\ s_word = 65535
  /\ s_n = 65537
  /\ s_folds = 2
  /\ s_ret = 0

(***************************************************************************)
(* Properties of prettify_xml (XmlSpec).                                   *)
(***************************************************************************)
\* token i of out starts a line indented by d indent_str
on_new_line(out, i, d) ==
  /\ i - d - 1 >= 1
  /\ out[i - d - 1].k = "nl"
  /\ \A j \in (i - d)..(i - 1) : out[j].k = "ind"

\* token i of out follows its predecessor with no whitespace between
direct(out, i) == i > 1 /\ out[i - 1].k \notin { "nl", "ind" }

\* C15: a closing tag follows the content directly when the children of its
\* element are text, and only when the element has a text child; the closing
\* tag of an element without a text child (no children, or elements, comments
\* and other nodes only) starts a new line indented by two spaces per level.
C15_ClosingTagPlacement ==
  \A i \in DOMAIN x_out :
    x_out[i].k = "close" =>
      /\ x_out[i].kids = { "text" } => direct(x_out, i)
      /\ direct(x_out, i) => "text" \in x_out[i].kids
      /\ "text" \notin x_out[i].kids => on_new_line(x_out, i, x_out[i].lvl)

\* C19: indent equals the number of open elements, so it is never below 0
\* and no End finds it at 0; every opening tag, empty tag and comment starts a
\* new line indented by two spaces per open ancestor; when the input ends
\* with every element closed indent is 0.
C19_IndentTracksDepth ==
  /\ x_pc # "panic"
  /\ x_pc \in { "loop", "done" } => (x_indent = Len(x_open) /\ x_indent >= 0)
  /\ \A i \in DOMAIN x_out :
       x_out[i].k \in { "open", "empty", "comment" } =>
         on_new_line(x_out, i, x_out[i].lvl)
  /\ (x_pc = "done" /\ x_open = << >>) => x_indent = 0

\* <a><b k="v"><!--c--></b></a> read to its end
C19_Witness ==
  /\ x_pc = "done"
  /\ x_open = << >>
  /\ x_events = 5
  /\ Len(x_out) = 14
  /\ x_out[5].k = "open" /\ x_out[5].lvl = 1
  /\ x_out[9].k = "comment" /\ x_out[9].lvl = 2
  /\ x_indent = 0

====
